---- MODULE Spec2Model ----
(***************************************************************************)
(* Model of scripts/network_log_parser.py: NetworkLogParser.load, .parse   *)
(* (one action per loop iteration) and the ranked sections of .report.     *)
(*                                                                         *)
(* A log line is a record [head, body].  head is the raw leading text of   *)
(* the line, a sequence of one-character strings; the two timestamp        *)
(* patterns are matched against it character by character.  body is the    *)
(* rest of the line as a sequence of tokens [k, s, c]: k is the kind of    *)
(* text, s the text of a word, an address or a port number, c the          *)
(* characters of a numeric field.                                          *)
(***************************************************************************)
EXTENDS Integers, Sequences, FiniteSets, TLC

VARIABLES pc, lines, total_lines, line_num,
          denied_entries, allowed_entries, connection_errors, dns_failures,
          dns_queries, high_latency, packet_loss_entries, dhcp_events,
          source_ips, dest_ips, denied_ips, error_timeline, ports_targeted,
          top_n, sections

tables == <<source_ips, dest_ips, denied_ips, error_timeline, ports_targeted>>
entries == <<denied_entries, allowed_entries, connection_errors, dns_failures,
             dns_queries, high_latency, packet_loss_entries, dhcp_events>>
vars == <<pc, lines, total_lines, line_num, entries, tables, top_n, sections>>

\* Bounds of the model.
MaxLines == 2
MaxTopN == 2

(***************************************************************************)
(* Characters                                                              *)
(***************************************************************************)
Digits == {"0", "1", "2", "3", "4", "5", "6", "7", "8", "9"}
Letters == {"a", "b", "c", "d", "e", "f", "g", "h", "i", "j", "k", "l", "m",
            "n", "o", "p", "q", "r", "s", "t", "u", "v", "w", "x", "y", "z",
            "A", "B", "C", "D", "E", "F", "G", "H", "I", "J", "K", "L", "M",
            "N", "O", "P", "Q", "R", "S", "T", "U", "V", "W", "X", "Y", "Z"}
\* \d, \w and \s of the re module
IsDigit(ch) == ch \in Digits
IsWordChar(ch) == ch \in Digits \cup Letters \cup {"_"}
Spaces == {" ", "\t"}
IsSpace(ch) == ch \in Spaces

\* text[:n]
Slice(text, n) == SubSeq(text, 1, IF n < Len(text) THEN n ELSE Len(text))

\* the length of the run of characters of the class that starts at position i
RECURSIVE RunLen(_, _, _)
RunLen(text, i, class) ==
    IF i <= Len(text) /\ text[i] \in class THEN 1 + RunLen(text, i + 1, class) ELSE 0

\* \d{2}:\d{2}:\d{2} at position i
ClockAt(text, i) ==
    /\ i + 7 <= Len(text)
    /\ \A j \in {0, 1, 3, 4, 6, 7} : IsDigit(text[i + j])
    /\ \A j \in {2, 5} : text[i + j] = ":"

(***************************************************************************)
(* PATTERNS                                                                *)
(***************************************************************************)
\* ^\w{3}\s+\d{1,2}\s+\d{2}:\d{2}:\d{2} : the matched text, <<>> when no match
timestamp_syslog(line) ==
    LET t == line.head
        s1 == RunLen(t, 4, Spaces)
        d == RunLen(t, 4 + s1, Digits)
        s2 == RunLen(t, 4 + s1 + d, Spaces)
        clock == 4 + s1 + d + s2
    IN IF /\ Len(t) >= 3
          /\ \A j \in 1..3 : IsWordChar(t[j])
          /\ s1 >= 1
          /\ d \in {1, 2}
          /\ s2 >= 1
          /\ ClockAt(t, clock)
       THEN SubSeq(t, 1, clock + 7)
       ELSE <<>>

\* \d{4}-\d{2}-\d{2}[T ]\d{2}:\d{2}:\d{2} at position i
IsoAt(text, i) ==
    /\ i + 18 <= Len(text)
    /\ \A j \in {0, 1, 2, 3, 5, 6, 8, 9} : IsDigit(text[i + j])
    /\ \A j \in {4, 7} : text[i + j] = "-"
    /\ text[i + 10] \in {"T", " "}
    /\ ClockAt(text, i + 11)

\* search(): the leftmost match, <<>> when there is none
timestamp_iso(line) ==
    LET t == line.head
        at == {i \in 1..Len(t) : IsoAt(t, i)}
    IN IF at = {} THEN <<>>
       ELSE LET i == CHOOSE x \in at : \A y \in at : x <= y
            IN SubSeq(t, i, i + 18)

(***************************************************************************)
(* Tokens of the body of a line                                            *)
(***************************************************************************)
Word(s) == [k |-> "word", s |-> s, c |-> <<>>]
\* a dotted quad, as ip_address matches it
Addr(s) == [k |-> "ip", s |-> s, c |-> <<>>]
\* a labelled port field such as SPT=443; s is the digits
PortField(s) == [k |-> "port", s |-> s, c |-> <<>>]
\* a dotted host name ending in two or more letters
HostName(s) == [k |-> "domain", s |-> s, c |-> <<>>]
\* the text "rtt=<c> ms"
LatencyField(c) == [k |-> "latency", s |-> "", c |-> c]
\* the text "<c>% packet loss"
LossField(c) == [k |-> "loss", s |-> "", c |-> c]

\* re.IGNORECASE on the words the lines below use
Upper(s) ==
    CASE s = "drop" -> "DROP"
      [] s = "Deny" -> "DENY"
      [] s = "accept" -> "ACCEPT"
      [] s = "refused" -> "REFUSED"
      [] s = "connection" -> "CONNECTION"
      [] s = "Connection" -> "CONNECTION"
      [] s = "reset" -> "RESET"
      [] s = "unreachable" -> "UNREACHABLE"
      [] s = "lookup" -> "LOOKUP"
      [] s = "looking" -> "LOOKING"
      [] s = "up" -> "UP"
      [] s = "query" -> "QUERY"
      [] s = "resolved" -> "RESOLVED"
      [] s = "timed" -> "TIMED"
      [] s = "out" -> "OUT"
      [] OTHER -> s

\* the words of the phrase, in this order and next to each other, are in the body;
\* a phrase is a sequence of sets of alternatives
HasPhrase(line, phrase) ==
    \E i \in 1..Len(line.body) :
        \A j \in 1..Len(phrase) :
            /\ i + j - 1 <= Len(line.body)
            /\ line.body[i + j - 1].k = "word"
            /\ Upper(line.body[i + j - 1].s) \in phrase[j]

\* \d+\.?\d* matches the whole of c
NumberShape(c) ==
    LET d1 == RunLen(c, 1, Digits)
        dot == IF d1 < Len(c) /\ c[d1 + 1] = "." THEN 1 ELSE 0
    IN /\ d1 >= 1
       /\ d1 + dot + RunLen(c, d1 + dot + 1, Digits) = Len(c)

\* findall(): every address of the line, left to right
ip_address(line) ==
    LET ips == SelectSeq(line.body, LAMBDA t : t.k = "ip")
    IN [i \in 1..Len(ips) |-> ips[i].s]

\* finditer(): the digits of every port field, left to right
port(line) ==
    LET ports == SelectSeq(line.body, LAMBDA t : t.k = "port")
    IN [i \in 1..Len(ports) |-> ports[i].s]

firewall_deny(line) ==
    HasPhrase(line, <<{"DROP", "DENY", "BLOCK", "REJECT", "REFUSED"}>>)

firewall_allow(line) ==
    HasPhrase(line, <<{"ACCEPT", "ALLOW", "PERMIT"}>>)

\* (query|lookup|resolve[ds]?)\s+.*?<domain>
dns_query(line) ==
    \E i \in 1..Len(line.body) :
        /\ line.body[i].k = "word"
        /\ Upper(line.body[i].s) \in {"QUERY", "LOOKUP", "RESOLVE", "RESOLVED", "RESOLVES"}
        /\ \E j \in (i + 1)..Len(line.body) : line.body[j].k = "domain"

dns_failure(line) ==
    \/ HasPhrase(line, <<{"NXDOMAIN", "SERVFAIL", "REFUSED"}>>)
    \/ HasPhrase(line, <<{"NO"}, {"SERVER", "SERVERS"}, {"COULD"}, {"BE"}, {"REACHED"}>>)
    \/ HasPhrase(line, <<{"TIMED", "TIME"}, {"OUT"}>>)
    \/ HasPhrase(line, <<{"TIMEDOUT", "TIMEOUT"}>>)
    \/ HasPhrase(line, <<{"RESOLUTION"}, {"FAILED"}>>)

connection_error(line) ==
    \/ HasPhrase(line, <<{"CONNECTION"}, {"REFUSED", "RESET", "CLOSED", "FAILED",
                                          "TIMEDOUT", "TIMEOUT"}>>)
    \/ HasPhrase(line, <<{"CONNECTION"}, {"TIMED", "TIME"}, {"OUT"}>>)
    \/ HasPhrase(line, <<{"UNREACHABLE"}>>)
    \/ HasPhrase(line, <<{"NO"}, {"ROUTE"}>>)
    \/ HasPhrase(line, <<{"LINK", "INTERFACE"}, {"DOWN"}>>)

dhcp_event(line) ==
    HasPhrase(line, <<{"DHCPDISCOVER", "DHCPOFFER", "DHCPREQUEST", "DHCPACK",
                       "DHCPNAK", "DHCPRELEASE", "DHCPDECLINE"}>>)

\* search(): group "ms" of the leftmost match, <<>> when there is none.  The number
\* starts right after the label, so the field matches only as a whole.
latency(line) ==
    LET hits == SelectSeq(line.body, LAMBDA t : t.k = "latency" /\ NumberShape(t.c))
    IN IF hits = <<>> THEN <<>> ELSE hits[1].c

\* the leftmost position of c from which \d+\.?\d* reaches the end of c, 0 if none
LossStart(c) ==
    LET at == {i \in 1..Len(c) : NumberShape(SubSeq(c, i, Len(c)))}
    IN IF at = {} THEN 0 ELSE CHOOSE x \in at : \A y \in at : x <= y

\* search(): group "loss" of the leftmost match, <<>> when there is none.  The
\* pattern is not anchored on the left, so the match may start inside the field.
packet_loss(line) ==
    LET hits == SelectSeq(line.body, LAMBDA t : t.k = "loss" /\ LossStart(t.c) > 0)
    IN IF hits = <<>> THEN <<>>
       ELSE SubSeq(hits[1].c, LossStart(hits[1].c), Len(hits[1].c))

(***************************************************************************)
(* float(): the decimal text as the fraction num/den                       *)
(***************************************************************************)
DigitVal(ch) ==
    CASE ch = "0" -> 0 [] ch = "1" -> 1 [] ch = "2" -> 2 [] ch = "3" -> 3
      [] ch = "4" -> 4 [] ch = "5" -> 5 [] ch = "6" -> 6 [] ch = "7" -> 7
      [] ch = "8" -> 8 [] ch = "9" -> 9

RECURSIVE DigitsVal(_)
DigitsVal(ds) ==
    IF ds = <<>> THEN 0
    ELSE 10 * DigitsVal(SubSeq(ds, 1, Len(ds) - 1)) + DigitVal(ds[Len(ds)])

RECURSIVE Pow10(_)
Pow10(k) == IF k = 0 THEN 1 ELSE 10 * Pow10(k - 1)

ParseFloat(c) ==
    LET ds == SelectSeq(c, IsDigit)
        d1 == RunLen(c, 1, Digits)
    IN [num |-> DigitsVal(ds), den |-> Pow10(Len(ds) - d1)]

\* value > k, for a fraction and an integer
Greater(value, k) == value.num > k * value.den

\* str.strip() on the text of the line: white space before the first and after
\* the last character goes
RECURSIVE StripText(_)
StripText(text) ==
    IF text = <<>> THEN <<>>
    ELSE IF IsSpace(text[1]) THEN StripText(Tail(text))
    ELSE IF IsSpace(text[Len(text)]) THEN StripText(SubSeq(text, 1, Len(text) - 1))
    ELSE text

Strip(line) ==
    IF line.body = <<>> THEN [line EXCEPT !.head = StripText(@)]
    ELSE [line EXCEPT !.head = SubSeq(@, 1 + RunLen(@, 1, Spaces), Len(@))]

(***************************************************************************)
(* collections.Counter and defaultdict(int): the keys in insertion order,  *)
(* each with its count, as a sequence of <<key, count>>                    *)
(***************************************************************************)
Keys(counter) == {counter[i][1] : i \in 1..Len(counter)}

Count(counter, key) ==
    IF key \in Keys(counter)
    THEN counter[CHOOSE i \in 1..Len(counter) : counter[i][1] = key][2]
    ELSE 0

\* counter[key] += 1
Incr(counter, key) ==
    IF key \in Keys(counter)
    THEN [i \in 1..Len(counter) |->
            IF counter[i][1] = key THEN <<key, counter[i][2] + 1>> ELSE counter[i]]
    ELSE Append(counter, <<key, 1>>)

\* counter[key] += 1 for every element of keys, in order
RECURSIVE IncrAll(_, _)
IncrAll(counter, keys) ==
    IF keys = <<>> THEN counter ELSE IncrAll(Incr(counter, keys[1]), Tail(keys))

(***************************************************************************)
(* The log files read: every sequence of at most MaxLines of these lines   *)
(***************************************************************************)
May == <<"M", "a", "y">>
Sp == <<" ">>
Date == <<"2", "0", "2", "4", "-", "0", "5", "-", "0", "1">>
Clock1015 == <<"1", "0", ":", "1", "5", ":", "0", "0">>
Clock1025 == <<"1", "0", ":", "2", "5", ":", "0", "0">>
Clock1045 == <<"1", "0", ":", "4", "5", ":", "0", "0">>

\* 2024-05-01T10:15:00, 2024-05-01T10:45:00, 2024-05-01 10:15:00
IsoT1015 == Date \o <<"T">> \o Clock1015
IsoT1045 == Date \o <<"T">> \o Clock1045
IsoS1015 == Date \o Sp \o Clock1015
\* May 11 10:15:00, May 11 10:45:00
Sys11at1015 == May \o Sp \o <<"1", "1">> \o Sp \o Clock1015
Sys11at1045 == May \o Sp \o <<"1", "1">> \o Sp \o Clock1045
\* May 1 10:15:00, May 1 10:25:00, and the padded May  1 10:15:00
Sys1at1015 == May \o Sp \o <<"1">> \o Sp \o Clock1015
Sys1at1025 == May \o Sp \o <<"1">> \o Sp \o Clock1025
SysPadAt1015 == May \o Sp \o Sp \o <<"1">> \o Sp \o Clock1015

Line(head, body) == [head |-> head, body |-> body]

FirewallLines ==
    { Line(IsoT1015, <<Word("DROP"), Addr("10.0.0.5"), Addr("10.0.0.9"),
                       PortField("443"), PortField("8080")>>),
      Line(IsoT1045, <<Word("unreachable")>>),
      Line(IsoS1015, <<Word("Connection"), Word("refused"), Addr("10.0.0.5")>>),
      Line(Sys11at1015, <<Word("DROP")>>),
      Line(Sys11at1045, <<Word("connection"), Word("reset")>>),
      Line(Sys1at1015, <<Word("Deny"), Addr("10.0.0.9")>>),
      Line(Sys1at1025, <<Word("DROP")>>),
      Line(SysPadAt1015, <<Word("BLOCK"), Word("accept"), Addr("10.0.0.5")>>),
      \* white space before the month: ^ keeps timestamp_syslog from matching
      Line(Sp \o Sys11at1015, <<Word("DROP"), Addr("10.0.0.7")>>),
      \* both forms on one line
      Line(Sys11at1015 \o Sp \o IsoT1045, <<Word("REJECT")>>),
      Line(IsoT1015, <<Word("ACCEPT"), Addr("10.0.0.5"), Addr("10.0.0.9")>>),
      Line(<<>>, <<Word("drop"), Addr("10.0.0.5"), Addr("10.0.0.9"),
                   Addr("10.0.0.7"), Word("PERMIT")>>),
      Line(<<>>, <<Addr("10.0.0.9")>>),
      \* one address twice
      Line(<<>>, <<Word("REFUSED"), Addr("10.0.0.7"), Addr("10.0.0.7")>>),
      Line(<<>>, <<PortField("443"), PortField("443"), PortField("22"),
                   Addr("10.0.0.7")>>) }

DnsLines ==
    { Line(<<>>, <<>>),
      Line(<<>>, <<Word("NXDOMAIN"), Word("looking"), Word("up"), Word("lookup"),
                   HostName("foo.example.com")>>),
      Line(<<>>, <<Word("lookup"), HostName("foo.example.com")>>),
      Line(<<>>, <<Word("query"), HostName("foo.example.com"), Word("timed"),
                   Word("out")>>) }

NumericLines ==
    { Line(<<>>, <<LatencyField(<<"2", "5", "0", ".", "5">>), Word("DHCPACK")>>),
      Line(<<>>, <<LatencyField(<<"1", "0", "0">>), LossField(<<"0">>)>>),
      Line(<<>>, <<LatencyField(<<"1", "0", "0", ".", "5">>), LossField(<<"0", ".", "5">>)>>),
      \* search() stops at the first field
      Line(<<>>, <<LatencyField(<<"8", "0">>), LatencyField(<<"2", "5", "0", ".", "5">>),
                   LossField(<<"0", ".", "0">>), LossField(<<"1", "0">>)>>),
      \* a number that starts with the point
      Line(<<>>, <<LatencyField(<<".", "5">>), LatencyField(<<"1", "0", "1">>),
                   LossField(<<".", "5">>)>>),
      Line(<<>>, <<LatencyField(<<"1", "0", "0", ".">>), LossField(<<"1", "0">>)>>) }

LogLines == FirewallLines \cup DnsLines \cup NumericLines

Files == UNION {[1..n -> LogLines] : n \in 0..MaxLines}

(***************************************************************************)
(* NetworkLogParser                                                        *)
(***************************************************************************)
Init ==
    /\ pc = "init"
    /\ lines = <<>>
    /\ total_lines = 0
    /\ line_num = 0
    /\ denied_entries = <<>>
    /\ allowed_entries = <<>>
    /\ connection_errors = <<>>
    /\ dns_failures = <<>>
    /\ dns_queries = <<>>
    /\ high_latency = <<>>
    /\ packet_loss_entries = <<>>
    /\ dhcp_events = <<>>
    /\ source_ips = <<>>
    /\ dest_ips = <<>>
    /\ denied_ips = <<>>
    /\ error_timeline = <<>>
    /\ ports_targeted = <<>>
    /\ top_n = 0
    /\ sections = <<>>

\* load() on a path that is no file: sys.exit(1)
LoadMissing ==
    /\ pc = "init"
    /\ pc' = "exit"
    /\ UNCHANGED <<lines, total_lines, line_num, entries, tables, top_n, sections>>

\* load() on a file
Load ==
    /\ pc = "init"
    /\ \E file \in Files :
        /\ lines' = file
        /\ total_lines' = Len(file)
    /\ pc' = "parsing"
    /\ UNCHANGED <<line_num, entries, tables, top_n, sections>>

\* One increment of each table per finditer() match: the first address of the whole
\* line for source_ips, the second for dest_ips.
extract_ips(line) ==
    LET ips == ip_address(line)
        matches == ip_address(line)
    IN /\ source_ips' = IncrAll(source_ips,
                                [m \in 1..(IF Len(ips) >= 1 THEN Len(matches) ELSE 0) |-> ips[1]])
       /\ dest_ips' = IncrAll(dest_ips,
                              [m \in 1..(IF Len(ips) >= 2 THEN Len(matches) ELSE 0) |-> ips[2]])

extract_ports(line) ==
    ports_targeted' = IncrAll(ports_targeted, port(line))

\* check_firewall with "if" in place of "elif"
check_firewall_two_ifs(line, n) ==
    /\ IF firewall_deny(line)
       THEN /\ denied_entries' = Append(denied_entries, <<n, Strip(line)>>)
            /\ denied_ips' = IncrAll(denied_ips, ip_address(line))
       ELSE UNCHANGED <<denied_entries, denied_ips>>
    /\ IF firewall_allow(line)
       THEN allowed_entries' = Append(allowed_entries, <<n, Strip(line)>>)
       ELSE UNCHANGED allowed_entries

check_firewall(line, n) ==
    IF firewall_deny(line)
    THEN /\ denied_entries' = Append(denied_entries, <<n, Strip(line)>>)
         /\ denied_ips' = IncrAll(denied_ips, ip_address(line))
         /\ UNCHANGED allowed_entries
    ELSE IF firewall_allow(line)
    THEN /\ allowed_entries' = Append(allowed_entries, <<n, Strip(line)>>)
         /\ UNCHANGED <<denied_entries, denied_ips>>
    ELSE UNCHANGED <<denied_entries, denied_ips, allowed_entries>>

\* check_dns with "if" in place of "elif"
check_dns_two_ifs(line, n) ==
    /\ IF dns_failure(line)
       THEN dns_failures' = Append(dns_failures, <<n, Strip(line)>>)
       ELSE UNCHANGED dns_failures
    /\ IF dns_query(line)
       THEN dns_queries' = Append(dns_queries, <<n, Strip(line)>>)
       ELSE UNCHANGED dns_queries

check_dns(line, n) ==
    IF dns_failure(line)
    THEN /\ dns_failures' = Append(dns_failures, <<n, Strip(line)>>)
         /\ UNCHANGED dns_queries
    ELSE IF dns_query(line)
    THEN /\ dns_queries' = Append(dns_queries, <<n, Strip(line)>>)
         /\ UNCHANGED dns_failures
    ELSE UNCHANGED <<dns_failures, dns_queries>>

check_connection_errors(line, n) ==
    IF connection_error(line)
    THEN connection_errors' = Append(connection_errors, <<n, Strip(line)>>)
    ELSE UNCHANGED connection_errors

\* check_latency with ">=" in place of ">"
check_latency_from_100(line, n) ==
    LET match == latency(line)
        ms == ParseFloat(match)
    IN IF match # <<>> /\ ms.num >= 100 * ms.den
       THEN high_latency' = Append(high_latency, <<n, ms, Strip(line)>>)
       ELSE UNCHANGED high_latency

check_latency(line, n) ==
    LET match == latency(line)
        ms == ParseFloat(match)
    IN IF match # <<>> /\ Greater(ms, 100)
       THEN high_latency' = Append(high_latency, <<n, ms, Strip(line)>>)
       ELSE UNCHANGED high_latency

\* check_packet_loss with ">=" in place of ">"
check_packet_loss_from_0(line, n) ==
    LET match == packet_loss(line)
        loss == ParseFloat(match)
    IN IF match # <<>> /\ loss.num >= 0
       THEN packet_loss_entries' = Append(packet_loss_entries, <<n, loss, Strip(line)>>)
       ELSE UNCHANGED packet_loss_entries

check_packet_loss(line, n) ==
    LET match == packet_loss(line)
        loss == ParseFloat(match)
    IN IF match # <<>> /\ Greater(loss, 0)
       THEN packet_loss_entries' = Append(packet_loss_entries, <<n, loss, Strip(line)>>)
       ELSE UNCHANGED packet_loss_entries

\* check_dhcp with insert(0, ...) in place of append(...)
check_dhcp_insert_first(line, n) ==
    IF dhcp_event(line)
    THEN dhcp_events' = <<<<n, Strip(line)>>>> \o dhcp_events
    ELSE UNCHANGED dhcp_events

check_dhcp(line, n) ==
    IF dhcp_event(line)
    THEN dhcp_events' = Append(dhcp_events, <<n, Strip(line)>>)
    ELSE UNCHANGED dhcp_events

\* the text of the first of timestamp_iso, timestamp_syslog that matches, cut to
\* 13 and to 10 characters; <<>> when neither matches
HourBucket(line) ==
    IF timestamp_iso(line) # <<>> THEN Slice(timestamp_iso(line), 13)
    ELSE IF timestamp_syslog(line) # <<>> THEN Slice(timestamp_syslog(line), 10)
    ELSE <<>>

\* extract_timestamp_bucket with one increment per kind of error
extract_timestamp_bucket_per_kind(line) ==
    LET deny == IF firewall_deny(line) THEN <<HourBucket(line)>> ELSE <<>>
        conn == IF connection_error(line) THEN <<HourBucket(line)>> ELSE <<>>
    IN IF HourBucket(line) # <<>>
       THEN error_timeline' = IncrAll(error_timeline, deny \o conn)
       ELSE UNCHANGED error_timeline

extract_timestamp_bucket(line) ==
    IF HourBucket(line) # <<>> /\ (firewall_deny(line) \/ connection_error(line))
    THEN error_timeline' = Incr(error_timeline, HourBucket(line))
    ELSE UNCHANGED error_timeline

\* enumerate(self.lines) without start=1
NextLineNumFromZero == line_num

\* the number enumerate(self.lines, start=1) gives the next line
NextLineNum == line_num + 1

\* one iteration of the loop of parse()
ParseLine ==
    /\ pc = "parsing"
    /\ line_num < Len(lines)
    /\ LET n == NextLineNum
           line == lines[line_num + 1]
       IN /\ extract_ips(line)
          /\ extract_ports(line)
          /\ check_firewall(line, n)
          /\ check_dns(line, n)
          /\ check_connection_errors(line, n)
          /\ check_latency(line, n)
          /\ check_packet_loss(line, n)
          /\ check_dhcp(line, n)
          /\ extract_timestamp_bucket(line)
    /\ line_num' = line_num + 1
    /\ UNCHANGED <<pc, lines, total_lines, top_n, sections>>

\* the loop of parse() ends
ParseEnd ==
    /\ pc = "parsing"
    /\ line_num = Len(lines)
    /\ pc' = "parsed"
    /\ UNCHANGED <<lines, total_lines, line_num, entries, tables, top_n, sections>>

\* the first n entries in insertion order, unranked
most_common_unranked(counter, n) ==
    SubSeq(counter, 1, IF n < Len(counter) THEN n ELSE Len(counter))

\* Counter.most_common(n), n > 0: the n largest counts, the largest first, equal
\* counts in insertion order
RECURSIVE most_common(_, _)
most_common(counter, n) ==
    IF n = 0 \/ counter = <<>> THEN <<>>
    ELSE LET best == CHOOSE i \in 1..Len(counter) :
                        /\ \A j \in 1..Len(counter) : counter[j][2] <= counter[i][2]
                        /\ \A j \in 1..(i - 1) : counter[j][2] < counter[i][2]
             rest == [j \in 1..(Len(counter) - 1) |->
                        IF j < best THEN counter[j] ELSE counter[j + 1]]
         IN <<counter[best]>> \o most_common(rest, n - 1)

\* one ranked section of the report; none for an empty table
Section(title, counter, n) ==
    IF counter # <<>> THEN <<[title |-> title, rows |-> most_common(counter, n)]>>
    ELSE <<>>

\* report(top_n): its four ranked sections
Report ==
    /\ pc = "parsed"
    /\ \E n \in 1..MaxTopN :
        /\ top_n' = n
        /\ sections' = Section("IPs IN DENY/DROP ENTRIES", denied_ips, n)
                       \o Section("SOURCE IPs", source_ips, n)
                       \o Section("DESTINATION IPs", dest_ips, n)
                       \o Section("TARGETED PORTS", ports_targeted, n)
    /\ pc' = "reported"
    /\ UNCHANGED <<lines, total_lines, line_num, entries, tables>>

Next == LoadMissing \/ Load \/ ParseLine \/ ParseEnd \/ Report

Spec == Init /\ [][Next]_vars

(***************************************************************************)
(* Properties                                                              *)
(***************************************************************************)
\* the numbers of the lines parse() has processed
Processed == 1..line_num

\* how many records of the list carry line number n
Recorded(list, n) == Cardinality({r \in 1..Len(list) : list[r][1] = n})

\* the positions of key in a sequence of keys
Positions(keys, key) == {j \in 1..Len(keys) : keys[j] = key}

Qualifies(line) == firewall_deny(line) \/ connection_error(line)

AllAddresses ==
    UNION {{ip_address(l)[j] : j \in 1..Len(ip_address(l))} : l \in LogLines}

\* C1: every processed line with at least one address has incremented source_ips
\* exactly once, on its first address, and every processed line with at least two
\* has incremented dest_ips exactly once, on its second; other lines change neither
\* table.  So each count is the number of processed lines with that first (second)
\* address.
C1_OneIncrementPerLine ==
    \A key \in AllAddresses \cup Keys(source_ips) \cup Keys(dest_ips) :
        /\ Count(source_ips, key) =
             Cardinality({i \in Processed : /\ Len(ip_address(lines[i])) >= 1
                                            /\ ip_address(lines[i])[1] = key})
        /\ Count(dest_ips, key) =
             Cardinality({i \in Processed : /\ Len(ip_address(lines[i])) >= 2
                                            /\ ip_address(lines[i])[2] = key})

RECURSIVE Total(_)
Total(counter) == IF counter = <<>> THEN 0 ELSE counter[1][2] + Total(Tail(counter))

AllBuckets == {HourBucket(l) : l \in LogLines} \ {<<>>}

\* C2: the count of every hour bucket is the number of processed lines that carry a
\* recognized timestamp of that bucket (ISO first, else syslog) and match
\* firewall_deny or connection_error, a line that matches both counted once; the
\* counts add up to the number of such lines, so no line is in two buckets.
C2_TimelineCountsLines ==
    /\ \A key \in AllBuckets \cup Keys(error_timeline) :
          Count(error_timeline, key) =
            Cardinality({i \in Processed : /\ HourBucket(lines[i]) = key
                                           /\ Qualifies(lines[i])})
    /\ Total(error_timeline) =
         Cardinality({i \in Processed : /\ \/ timestamp_iso(lines[i]) # <<>>
                                           \/ timestamp_syslog(lines[i]) # <<>>
                                        /\ Qualifies(lines[i])})

\* a line matching both kinds of error was bucketed once, beside a deny line with no
\* recognized timestamp
C2_Witness ==
    /\ pc = "parsed"
    /\ \E i, j \in Processed :
          /\ firewall_deny(lines[i]) /\ connection_error(lines[i])
          /\ Count(error_timeline, HourBucket(lines[i])) = 1
          /\ firewall_deny(lines[j]) /\ HourBucket(lines[j]) = <<>>
          /\ lines[j].head # <<>>

\* C3: a processed line with a deny keyword and an allow keyword is in denied_entries
\* exactly once and not in allowed_entries; denied_ips counts every address of
\* every processed deny line; no line number is in both lists.
C3_DenyBeforeAllow ==
    /\ \A i \in Processed :
          firewall_deny(lines[i]) /\ firewall_allow(lines[i])
            => Recorded(denied_entries, i) = 1 /\ Recorded(allowed_entries, i) = 0
    /\ \A key \in AllAddresses \cup Keys(denied_ips) :
          Count(denied_ips, key) =
            Cardinality(UNION {{<<i, j>> : j \in Positions(ip_address(lines[i]), key)} :
                               i \in {d \in Processed : firewall_deny(lines[d])}})
    /\ \A i \in Processed :
          ~(Recorded(denied_entries, i) > 0 /\ Recorded(allowed_entries, i) > 0)

\* a line with both keywords and three addresses has been processed
C3_Witness ==
    /\ pc = "parsed"
    /\ \E i \in Processed :
          /\ firewall_deny(lines[i]) /\ firewall_allow(lines[i])
          /\ Len(ip_address(lines[i])) = 3
          /\ Recorded(denied_entries, i) = 1
    /\ Len(allowed_entries) = 1

\* C4: a processed line that matches dns_failure and dns_query is in dns_failures
\* and not in dns_queries; no line number is in both lists.
C4_FailureBeforeQuery ==
    /\ \A i \in Processed :
          dns_failure(lines[i]) /\ dns_query(lines[i])
            => Recorded(dns_failures, i) = 1 /\ Recorded(dns_queries, i) = 0
    /\ \A i \in Processed :
          ~(Recorded(dns_failures, i) > 0 /\ Recorded(dns_queries, i) > 0)

\* a line matching both has been processed, beside a plain query
C4_Witness ==
    /\ pc = "parsed"
    /\ \E i \in Processed : dns_failure(lines[i]) /\ dns_query(lines[i])
    /\ Len(dns_queries) = 1
    /\ Len(dns_failures) = 1

\* the text of a latency field that reads exactly 100
Exactly100 == {<<"1", "0", "0">>, <<"1", "0", "0", ".">>}

\* C5: a processed line on which latency matches is in high_latency, once and with
\* the parsed value, exactly when the value is greater than 100 (a field reading
\* exactly 100 is not); a line on which it does not match is not in the list.
C5_LatencyAbove100 ==
    \A i \in Processed :
        LET match == latency(lines[i])
        IN /\ match = <<>> => Recorded(high_latency, i) = 0
           /\ match # <<>> =>
                /\ Recorded(high_latency, i) =
                     (IF ParseFloat(match).num > 100 * ParseFloat(match).den THEN 1 ELSE 0)
                /\ \A r \in 1..Len(high_latency) :
                      high_latency[r][1] = i => high_latency[r][2] = ParseFloat(match)
           /\ match \in Exactly100 => Recorded(high_latency, i) = 0

\* a line reading exactly 100 is left out and one reading 100.5 is recorded
C5_Witness ==
    /\ pc = "parsed"
    /\ \E i, j \in Processed :
          /\ latency(lines[i]) = <<"1", "0", "0">>
          /\ Recorded(high_latency, i) = 0
          /\ latency(lines[j]) = <<"1", "0", "0", ".", "5">>
          /\ Recorded(high_latency, j) = 1

\* the text of a loss field that reads exactly 0
Exactly0 == {<<"0">>, <<"0", ".", "0">>}

\* C6: a processed line on which packet_loss matches is in packet_loss_entries, once
\* and with the parsed value, exactly when the value is greater than 0 (a field
\* reading exactly 0 is not); a line on which it does not match is not in the list.
C6_LossAbove0 ==
    \A i \in Processed :
        LET match == packet_loss(lines[i])
        IN /\ match = <<>> => Recorded(packet_loss_entries, i) = 0
           /\ match # <<>> =>
                /\ Recorded(packet_loss_entries, i) =
                     (IF ParseFloat(match).num > 0 THEN 1 ELSE 0)
                /\ \A r \in 1..Len(packet_loss_entries) :
                      packet_loss_entries[r][1] = i
                        => packet_loss_entries[r][2] = ParseFloat(match)
           /\ match \in Exactly0 => Recorded(packet_loss_entries, i) = 0

\* lines reading 0 and 0.0 are left out and one reading 0.5 is recorded
C6_Witness ==
    /\ pc = "parsed"
    /\ \E i, j \in Processed :
          /\ packet_loss(lines[i]) \in Exactly0
          /\ Recorded(packet_loss_entries, i) = 0
          /\ packet_loss(lines[j]) = <<"0", ".", "5">>
          /\ Recorded(packet_loss_entries, j) = 1

Lists == <<denied_entries, allowed_entries, connection_errors, dns_failures,
           dns_queries, high_latency, packet_loss_entries, dhcp_events>>

\* C7: once load() has run, total_lines is the number of lines read, and every
\* record of every category list carries a line number in 1..total_lines.
C7_LineNumbersInRange ==
    pc \in {"parsing", "parsed", "reported"} =>
        /\ total_lines = Len(lines)
        /\ \A l \in 1..Len(Lists) : \A r \in 1..Len(Lists[l]) :
              Lists[l][r][1] \in 1..total_lines

\* the first and the last line of a two-line file are both recorded
C7_Witness ==
    /\ pc = "parsed"
    /\ total_lines = 2
    /\ Recorded(denied_entries, 1) = 1
    /\ Recorded(dhcp_events, total_lines) = 1

\* the table a ranked section of the report is drawn from
TableOf(title) ==
    CASE title = "IPs IN DENY/DROP ENTRIES" -> denied_ips
      [] title = "SOURCE IPs" -> source_ips
      [] title = "DESTINATION IPs" -> dest_ips
      [] title = "TARGETED PORTS" -> ports_targeted

Titles == {"IPs IN DENY/DROP ENTRIES", "SOURCE IPs", "DESTINATION IPs", "TARGETED PORTS"}

\* the position of key in the table, its rank of first insertion
Rank(counter, key) == CHOOSE i \in 1..Len(counter) : counter[i][1] = key

\* C8: report(top_n) gives every non-empty table a section of min(top_n, number of
\* keys) distinct entries of the table, in non-increasing order of count, no
\* unlisted key having a larger count than a listed one, and keys of equal count in
\* the order the file first mentions them.
C8_TopNRanked ==
    pc = "reported" =>
        /\ {sections[k].title : k \in 1..Len(sections)} =
             {title \in Titles : TableOf(title) # <<>>}
        /\ \A k \in 1..Len(sections) :
              LET rows == sections[k].rows
                  table == TableOf(sections[k].title)
                  listed == {rows[r][1] : r \in 1..Len(rows)}
              IN /\ Len(rows) = (IF top_n < Len(table) THEN top_n ELSE Len(table))
                 /\ \A r \in 1..Len(rows) : rows[r] = table[Rank(table, rows[r][1])]
                 /\ Cardinality(listed) = Len(rows)
                 /\ \A r \in 1..(Len(rows) - 1) : rows[r][2] >= rows[r + 1][2]
                 /\ \A key \in Keys(table) \ listed : \A r \in 1..Len(rows) :
                       Count(table, key) <= rows[r][2]
                 /\ \A q, r \in 1..Len(rows) :
                       q < r /\ rows[q][2] = rows[r][2]
                         => Rank(table, rows[q][1]) < Rank(table, rows[r][1])
                 /\ \A key \in Keys(table) \ listed : \A r \in 1..Len(rows) :
                       Count(table, key) = rows[r][2]
                         => Rank(table, rows[r][1]) < Rank(table, key)

\* top 2 of three denied addresses, the second one inserted having the largest count
\* and the other two the same count
C8_Witness ==
    /\ pc = "reported"
    /\ top_n = 2
    /\ Len(denied_ips) = 3
    /\ denied_ips[1][2] = 1 /\ denied_ips[2][2] = 2 /\ denied_ips[3][2] = 1
    /\ sections[1].rows = <<denied_ips[2], denied_ips[1]>>

\* the recognized timestamp of a line: ISO first, else syslog
Timestamp(line) ==
    IF timestamp_iso(line) # <<>> THEN timestamp_iso(line) ELSE timestamp_syslog(line)

\* a timestamp up to and including its hour field: all that precedes the first colon
HourPrefix(ts) ==
    SubSeq(ts, 1, (CHOOSE i \in 1..Len(ts) : ts[i] = ":" /\ \A j \in 1..(i - 1) : ts[j] # ":") - 1)

BucketedLines == {i \in Processed : Timestamp(lines[i]) # <<>> /\ Qualifies(lines[i])}

\* C9: every bucket key is the timestamp of a bucketed line cut after its hour field
\* (with or without the colon that follows), so it holds nothing of the minutes and
\* seconds, and the bucketed lines with one hour prefix share one bucket: there are
\* as many buckets as hour prefixes.
C9_HourGranularity ==
    /\ \A key \in Keys(error_timeline) :
          \E i \in BucketedLines :
              key \in {HourPrefix(Timestamp(lines[i])),
                       HourPrefix(Timestamp(lines[i])) \o <<":">>}
    /\ Cardinality(Keys(error_timeline)) =
         Cardinality({HourPrefix(Timestamp(lines[i])) : i \in BucketedLines})

IsPrefix(a, b) == Len(a) <= Len(b) /\ a = SubSeq(b, 1, Len(a))

Ascending(list) == \A r \in 1..(Len(list) - 1) : list[r][1] < list[r + 1][1]

Tables == <<source_ips, dest_ips, denied_ips, error_timeline, ports_targeted>>

\* C10: the pass goes forward one line at a time; at every step no count of a table
\* decreases and no key goes, and every category list keeps its contents as a prefix
\* and grows by at most one record, which carries the number of the line just
\* processed; so at every point every list is in strictly ascending order of line
\* number, with at most one record per line.
C10_MonotonePass ==
    /\ [][/\ line_num' \in {line_num, line_num + 1}
          /\ \A t \in 1..Len(Tables) : \A key \in Keys(Tables[t]) :
                Count(Tables'[t], key) >= Count(Tables[t], key)
          /\ \A l \in 1..Len(Lists) :
                /\ IsPrefix(Lists[l], Lists'[l])
                /\ Len(Lists'[l]) <= Len(Lists[l]) + 1
                /\ Len(Lists'[l]) = Len(Lists[l]) + 1
                     => Lists'[l][Len(Lists'[l])][1] = line_num']_vars
    /\ [](\A l \in 1..Len(Lists) :
             /\ Ascending(Lists[l])
             /\ \A i \in Processed : Recorded(Lists[l], i) <= 1)

\* two lines have been processed, both recorded in two lists, and a count has reached 2
C10_Witness ==
    /\ pc = "parsed"
    /\ Len(denied_entries) = 2
    /\ Len(connection_errors) = 2
    /\ \E key \in Keys(denied_ips) : Count(denied_ips, key) = 2

====
